---- MODULE Spec2Model ----
(***************************************************************************)
(* The three service workers of the repository (v2 in src/sw.js, v3 and v1 *)
(* in src/unnamed/part_000) over a model of Cache Storage, fetch and the   *)
(* worker lifecycle.                                                       *)
(*                                                                         *)
(* Strings the code tests with startsWith / includes are sequences of      *)
(* tokens, so that a prefix or substring test is computed, not looked up.  *)
(***************************************************************************)
EXTENDS Naturals, Integers, Sequences, FiniteSets, TLC

\* ------------------------------------------------------------------ bounds
\* fetch events that can be in flight at the same time
MaxSlots == 1
\* caches left in Cache Storage by earlier workers
MaxPreCaches == 1
\* entries of the progress queue
MaxQueue == 1

\* the contents the server can serve for a URL: two, so that a refreshed
\* response can differ from the one already cached
Bodies == {1, 2}
Slots == 1..MaxSlots

\* ------------------------------------------------- String.prototype helpers
StartsWith(s, p) == Len(p) <= Len(s) /\ SubSeq(s, 1, Len(p)) = p

Includes(s, p) == \E i \in 1..(Len(s) + 1) : i + Len(p) - 1 <= Len(s) /\ SubSeq(s, i, i + Len(p) - 1) = p

Range(s) == {s[i] : i \in 1..Len(s)}

\* ------------------------------------------------------------------- URLs
HTTP == <<"http", ":">>
HTTPS == <<"http", "s", ":">>
EXT == <<"chrome-extension", ":">>
LocalHost == <<"localhost">>
PypiHost == <<"pypi", ".", "org">>

Url(protocol, hostname, path) == [protocol |-> protocol, hostname |-> hostname, path |-> path]

\* request.url, the serialised URL
Href(url) == url.protocol \o <<"//">> \o url.hostname \o url.path

\* a URL string given to the Cache API is parsed against the worker's location
\* (the worker script sits at the root of the origin)
IndexOf(s, tok) == CHOOSE i \in 1..Len(s) : s[i] = tok /\ \A j \in 1..(i - 1) : s[j] # tok

ParseUrl(ref) ==
  IF Len(ref) >= 2 /\ ref[1] = "." /\ ref[2] = "/"
    THEN Url(HTTP, LocalHost, <<"/">> \o SubSeq(ref, 3, Len(ref)))
  ELSE IF Len(ref) >= 1 /\ ref[1] = "/"
    THEN Url(HTTP, LocalHost, ref)
  ELSE Url(SubSeq(ref, 1, IndexOf(ref, ":")),
           SubSeq(ref, IndexOf(ref, "//") + 1, IndexOf(ref, "/") - 1),
           SubSeq(ref, IndexOf(ref, "/"), Len(ref)))

\* ------------------------------------------------- constants of the workers
CACHE_NAME_v2 == <<"ai-learning", "-v2">>
STLITE_CACHE == <<"stlite", "-cache-v1">>
STATIC_ASSETS_v2 ==
  { <<"/">>, <<"/", "index.html">>, <<"/", "manifest.json">>, <<"/", "static/styles.css">>,
    <<"/", "static/icons/icon-192.svg">>, <<"/", "static/icons/icon-512.svg">> }
STLITE_RESOURCES ==
  { <<"http", "s", ":", "//", "cdn", ".", "jsdelivr", ".", "net", "/", "npm/@stlite/mountable@0.42.3/build/stlite.js">> }

CACHE_NAME_v3 == <<"ai-learning", "-v3">>
STATIC_ASSETS_v3 == { <<".", "/">>, <<".", "/", "index.html">>, <<".", "/", "manifest.json">> }

CACHE_NAME_v1 == <<"ai-learning", "-v1">>
STATIC_CACHE == <<"static", "-v1">>
DYNAMIC_CACHE == <<"dynamic", "-v1">>
STATIC_ASSETS_v1 == { <<"/">>, <<"/", "static/styles.css">>, <<"/", "manifest.json">> }

Versions == {"v1", "v2", "v3"}

STATIC_ASSETS(v) ==
  IF v = "v3" THEN STATIC_ASSETS_v3 ELSE IF v = "v2" THEN STATIC_ASSETS_v2 ELSE STATIC_ASSETS_v1

\* every URL an install handler gives to cache.addAll
Precache(v) == IF v = "v2" THEN STATIC_ASSETS_v2 \cup STLITE_RESOURCES ELSE STATIC_ASSETS(v)

\* --------------------------------------------------------------- responses
Resp(url, ok, body) == [kind |-> "response", url |-> url, ok |-> ok, body |-> body]
\* the value a promise resolves with when there is no match / no return value
Undefined == [kind |-> "undefined"]
\* the promise given to respondWith rejected
Rejected == [kind |-> "rejected"]
\* respondWith was not called: the browser handles the request itself
PassThrough == [kind |-> "passthrough"]
Pending == [kind |-> "pending"]

IsResponse(r) == r.kind = "response"
\* mutant: the status of the response is not looked at
OkAnyStatus(r) == IsResponse(r)
\* the test `if (response.ok)` of the handlers
Ok(r) == IsResponse(r) /\ r.ok

\* what fetch() can do: resolve with an ok response, resolve with a non-ok
\* response, or reject
NetOutcomes(url) == {Resp(url, TRUE, b) : b \in Bodies} \cup {Resp(url, FALSE, 0), Rejected}

\* ----------------------------------------------------------- Cache Storage
\* names: the cache names in creation order; data: name -> (URL -> response)
EmptyCache == [u \in {} |-> Undefined]

EmptyStorage == [names |-> << >>, data |-> [n \in {} |-> EmptyCache]]

Has(st, n) == n \in Range(st.names)

\* caches.open(n): creates the cache when it does not exist
Open(st, n) ==
  IF Has(st, n) THEN st
  ELSE [names |-> Append(st.names, n),
        data |-> [m \in Range(st.names) \cup {n} |-> IF m = n THEN EmptyCache ELSE st.data[m]]]

\* mutant: a put that finds an entry for the URL removes it instead of replacing it
PutDropsOnConflict(st, n, url, r) ==
  IF ~Has(st, n) THEN st
  ELSE IF url \in DOMAIN st.data[n]
    THEN [st EXCEPT !.data[n] = [u \in DOMAIN st.data[n] \ {url} |-> st.data[n][u]]]
  ELSE [st EXCEPT !.data[n] = [u \in DOMAIN st.data[n] \cup {url} |-> IF u = url THEN r ELSE st.data[n][u]]]

\* cache.put(request, response) on the cache named n
Put(st, n, url, r) ==
  IF ~Has(st, n) THEN st
  ELSE [st EXCEPT !.data[n] = [u \in DOMAIN st.data[n] \cup {url} |-> IF u = url THEN r ELSE st.data[n][u]]]

\* caches.delete(n)
Delete(st, n) ==
  [names |-> SelectSeq(st.names, LAMBDA m : m # n),
   data |-> [m \in Range(st.names) \ {n} |-> st.data[m]]]

Min(S) == CHOOSE x \in S : \A y \in S : x <= y

\* mutant: only the cache created first is searched
MatchFirstCacheOnly(st, url) ==
  IF Len(st.names) > 0 /\ url \in DOMAIN st.data[st.names[1]] THEN st.data[st.names[1]][url] ELSE Undefined

\* caches.match(url): the entry of the first cache, in creation order, that has one
Match(st, url) ==
  LET hits == {i \in 1..Len(st.names) : url \in DOMAIN st.data[st.names[i]]}
  IN IF hits = {} THEN Undefined ELSE st.data[st.names[Min(hits)]][url]

\* cache.addAll(refs) on the cache named n: every URL is fetched; one failed or
\* non-ok fetch rejects the whole call and nothing is stored
AddAllOk(refs, failing) == refs \cap failing = {}

AddAll(st, n, refs, failing, body) ==
  IF ~AddAllOk(refs, failing) THEN st
  ELSE LET urls == {ParseUrl(r) : r \in refs}
       IN [st EXCEPT !.data[n] = [u \in DOMAIN st.data[n] \cup urls |->
                                    IF u \in urls THEN Resp(u, TRUE, body) ELSE st.data[n][u]]]

\* ----------------------------------------------------------------- requests
AcceptHtml == [present |-> TRUE, value |-> <<"text/html", ",", "application/xhtml+xml">>]
AcceptAny == [present |-> TRUE, value |-> <<"*/*">>]
AcceptAbsent == [present |-> FALSE, value |-> << >>]
Accepts == {AcceptHtml, AcceptAny, AcceptAbsent}

IndexUrl == ParseUrl(<<"/", "index.html">>)
RootUrl == ParseUrl(<<"/">>)
OfflineUrl == ParseUrl(<<"/", "offline.html">>)
LessonUrl == ParseUrl(<<"/", "lesson">>)
StliteUrl == CHOOSE u \in {ParseUrl(r) : r \in STLITE_RESOURCES} : TRUE
PypiUrl == Url(HTTPS, PypiHost, <<"/", "simple">>)
ExtUrl == Url(EXT, <<"abcdef">>, <<"/", "content.js">>)

\* the http(s) URLs the page asks for, per version
HttpUrls(v) ==
  IF v = "v3" THEN {IndexUrl, LessonUrl}
  ELSE IF v = "v2" THEN {IndexUrl, LessonUrl, PypiUrl}
  ELSE {RootUrl, OfflineUrl, LessonUrl}

\* a request is its URL and method; its accept header matters only once the
\* network fetch of the miss path has failed, and is drawn there (slot field
\* accept)
Requests(v) ==
  [url : HttpUrls(v), method : {"GET"}]
    \cup [url : {LessonUrl}, method : {"POST"}]
    \cup [url : {ExtUrl}, method : {"GET"}]

NoRequest == [url |-> ExtUrl, method |-> "NONE"]
Unread == [present |-> FALSE, value |-> <<"unread">>]

IdleSlot == [pc |-> "idle", req |-> NoRequest, accept |-> Unread, hit |-> FALSE, net |-> FALSE, resp |-> Pending, clone |-> Pending]

\* ------------------------------------------------------------ sync queue
ItemNames == <<"p1", "p2", "p3">>
Queue(n) == [i \in 1..n |-> ItemNames[i]]

\* JSON.stringify of an array of strings, as a token sequence
RECURSIVE JsonItems(_)
JsonItems(q) ==
  IF Len(q) = 0 THEN << >>
  ELSE IF Len(q) = 1 THEN <<q[1]>>
  ELSE <<q[1], ",">> \o JsonItems(Tail(q))

JsonStringify(q) == <<"[">> \o JsonItems(q) \o <<"]">>

\* JSON.parse of such a text: the items are the tokens at the even positions
JsonParse(text) == [i \in 1..((Len(text) - 1) \div 2) |-> text[2 * i]]

\* localStorage belongs to the page, which rewrites the queue between sync
\* events: its content is drawn when a sync event starts. available says
\* whether the global localStorage exists where the worker runs.
Unobserved == [available |-> FALSE, syncQueue |-> <<"unobserved">>]
Storages ==
  {[available |-> TRUE, syncQueue |-> JsonStringify(Queue(n))] : n \in 0..MaxQueue}
    \cup {[available |-> TRUE, syncQueue |-> << >>], [available |-> FALSE, syncQueue |-> << >>]}

IdleMsg == [pc |-> "idle", data |-> "none", skipWaiting |-> FALSE]

IdleSync == [pc |-> "idle", tag |-> << >>, syncData |-> << >>, posts |-> 0, body |-> << >>, status |-> "none", cleared |-> FALSE, settled |-> "none"]

\* ------------------------------------------------------------------- state
VARIABLES
  ver,          \* which of the three worker scripts is registered
  caches,       \* Cache Storage of the origin
  lifecycle,    \* "installing", "installed", "activating", "activated" or "redundant"
  deleted,      \* the cache names the running activate handler has deleted
  skipWaiting,  \* the install handler has called self.skipWaiting()
  msg,          \* the message event being handled
  claimed,      \* self.clients.claim() has been called
  slots,        \* the fetch events in flight
  storage,      \* localStorage: availability and the 'syncQueue' item
  sync          \* the sync event in flight (v1)

vars == <<ver, caches, lifecycle, deleted, skipWaiting, msg, claimed, slots, storage, sync>>

LegacyNames == {CACHE_NAME_v1, STATIC_CACHE, DYNAMIC_CACHE}

\* the order in which the legacy caches are created: the cache of the oldest
\* worker first, static-v1 at the install of v1, dynamic-v1 at its first put
LegacyOrder == <<CACHE_NAME_v1, STATIC_CACHE, DYNAMIC_CACHE>>

\* up to MaxPreCaches caches left behind, in creation order
PreNames ==
  {s \in UNION {[1..n -> LegacyNames] : n \in 0..MaxPreCaches} :
     \A i, j \in 1..Len(s) : i < j => IndexOf(LegacyOrder, s[i]) < IndexOf(LegacyOrder, s[j])}

\* a cache left behind holds old copies of the app shell
PreContents == {[u \in {RootUrl, IndexUrl} |-> Resp(u, TRUE, 1)]}

Init ==
  /\ ver \in Versions
  /\ \E names \in PreNames : \E c \in PreContents :
       caches = [names |-> names, data |-> [n \in Range(names) |-> c]]
  /\ lifecycle = "installing"
  /\ deleted = {}
  /\ skipWaiting = FALSE
  /\ msg = IdleMsg
  /\ claimed = FALSE
  /\ slots = [s \in Slots |-> IdleSlot]
  /\ storage = Unobserved
  /\ sync = IdleSync

NoSync == sync.pc = "idle"
NoFetch == \A s \in DOMAIN slots : slots[s].pc = "idle"
NoMsg == msg.pc = "idle"

\* ---------------------------------------------------------------- install
\* the install handler: failing is the set of precache URLs whose fetch fails
\* or is answered non-ok, body the content the server serves
InstallCaches(v, st, failing, body) ==
  IF v = "v3" THEN AddAll(Open(st, CACHE_NAME_v3), CACHE_NAME_v3, STATIC_ASSETS_v3, failing, body)
  ELSE IF v = "v2" THEN
    AddAll(AddAll(Open(Open(st, CACHE_NAME_v2), STLITE_CACHE),
                  CACHE_NAME_v2, STATIC_ASSETS_v2, failing, body),
           STLITE_CACHE, STLITE_RESOURCES, failing, body)
  ELSE AddAll(Open(st, STATIC_CACHE), STATIC_CACHE, STATIC_ASSETS_v1, failing, body)

\* mutant: skipWaiting is chained to the addAll of STATIC_ASSETS alone
InstallOkStaticOnly(v, failing) == AddAllOk(STATIC_ASSETS(v), failing)

\* Promise.all of the addAll promises resolves
InstallOk(v, failing) ==
  IF v = "v2" THEN AddAllOk(STATIC_ASSETS_v2, failing) /\ AddAllOk(STLITE_RESOURCES, failing)
  ELSE AddAllOk(STATIC_ASSETS(v), failing)

Install ==
  /\ lifecycle = "installing"
  /\ \E failing \in SUBSET Precache(ver) : \E body \in Bodies :
       /\ caches' = InstallCaches(ver, caches, failing, body)
       /\ IF InstallOk(ver, failing)
            THEN lifecycle' = "installed" /\ skipWaiting' = TRUE
            ELSE lifecycle' = "redundant" /\ skipWaiting' = skipWaiting
  /\ UNCHANGED <<ver, deleted, msg, claimed, slots, storage, sync>>

\* --------------------------------------------------------------- activate
\* mutant: the filter of v3 is inverted and deletes the current cache
StaleInverted(v, name) ==
  IF v = "v3" THEN name = CACHE_NAME_v3
  ELSE IF v = "v2" THEN ~StartsWith(name, <<"ai-learning">>) /\ ~StartsWith(name, <<"stlite">>)
  ELSE name # STATIC_CACHE /\ name # DYNAMIC_CACHE

\* mutant: the filter of v1 forgets the dynamic cache
StaleForgetsDynamic(v, name) ==
  IF v = "v3" THEN name # CACHE_NAME_v3
  ELSE IF v = "v2" THEN ~StartsWith(name, <<"ai-learning">>) /\ ~StartsWith(name, <<"stlite">>)
  ELSE name # STATIC_CACHE

\* the filter of the activate handler: the cache names it deletes
Stale(v, name) ==
  IF v = "v3" THEN name # CACHE_NAME_v3
  ELSE IF v = "v2" THEN ~StartsWith(name, <<"ai-learning">>) /\ ~StartsWith(name, <<"stlite">>)
  ELSE name # STATIC_CACHE /\ name # DYNAMIC_CACHE

RECURSIVE DeleteAll(_, _)
DeleteAll(st, names) ==
  IF names = << >> THEN st ELSE DeleteAll(Delete(st, Head(names)), Tail(names))

ActivateCaches(v, st) == DeleteAll(st, SelectSeq(st.names, LAMBDA n : Stale(v, n)))

\* the activate handler, up to the moment its waitUntil promise resolves
Activate ==
  /\ lifecycle = "installed"
  /\ NoMsg
  /\ caches' = ActivateCaches(ver, caches)
  /\ deleted' = {n \in Range(caches.names) : Stale(ver, n)}
  /\ claimed' = TRUE
  /\ lifecycle' = "activating"
  /\ UNCHANGED <<ver, skipWaiting, msg, slots, storage, sync>>

\* the worker becomes the active worker and starts to receive events
Activated ==
  /\ lifecycle = "activating"
  /\ lifecycle' = "activated"
  /\ deleted' = {}
  /\ UNCHANGED <<ver, caches, skipWaiting, msg, claimed, slots, storage, sync>>

\* ------------------------------------------------------------------ fetch
\* mutant: the method of the request is not looked at
InterceptedAnyMethod(v, req) ==
  IF v = "v3" THEN StartsWith(Href(req.url), <<"http">>)
  ELSE StartsWith(req.url.protocol, <<"http">>)

\* the two early returns of the fetch handler: respondWith is called only for
\* GET requests over http(s)
Intercepted(v, req) ==
  /\ req.method = "GET"
  /\ IF v = "v3" THEN StartsWith(Href(req.url), <<"http">>)
     ELSE StartsWith(req.url.protocol, <<"http">>)

\* mutant: only the jsdelivr host counts as a CDN
IsCdnJsdelivrOnly(url) == Includes(url.hostname, <<"jsdelivr">>)

\* the CDN test of the v2 handler
IsCdn(url) ==
  \/ Includes(url.hostname, <<"jsdelivr">>)
  \/ Includes(url.hostname, <<"pypi">>)
  \/ Includes(url.hostname, <<"pyodide">>)

\* mutant: v1 stores under its declared but otherwise unused CACHE_NAME
TargetCacheWrongName(v, url) ==
  IF v = "v3" THEN CACHE_NAME_v3
  ELSE IF v = "v2" THEN (IF IsCdn(url) THEN STLITE_CACHE ELSE CACHE_NAME_v2)
  ELSE CACHE_NAME_v1

\* the cache a network response is put into
TargetCache(v, url) ==
  IF v = "v3" THEN CACHE_NAME_v3
  ELSE IF v = "v2" THEN (IF IsCdn(url) THEN STLITE_CACHE ELSE CACHE_NAME_v2)
  ELSE DYNAMIC_CACHE

\* on a cache hit the handler starts a background fetch
Revalidates(v, url) == IF v = "v3" THEN FALSE ELSE IF v = "v2" THEN ~IsCdn(url) ELSE TRUE

\* mutant: v2 looks up the offline page of v1
FallbackRefOffline(v) ==
  IF v = "v3" THEN <<".", "/", "index.html">> ELSE <<"/", "offline.html">>

\* the URL the catch handler looks up
FallbackRef(v) ==
  IF v = "v3" THEN <<".", "/", "index.html">>
  ELSE IF v = "v2" THEN <<"/", "index.html">>
  ELSE <<"/", "offline.html">>

\* what happens when fetch() rejects on a miss: "match" (the catch handler
\* returns caches.match of the fallback), "undefined" (it returns nothing) or
\* "rejected" (no catch handler, or the catch handler throws)
CatchResult(v, url, accept) ==
  IF v = "v3" THEN "match"
  ELSE IF v = "v2" THEN
    (IF IsCdn(url) THEN "rejected"
     ELSE IF accept.present /\ Includes(accept.value, <<"text/html">>) THEN "match"
     ELSE "undefined")
  ELSE
    (IF ~accept.present THEN "rejected"
     ELSE IF Includes(accept.value, <<"text/html">>) THEN "match"
     ELSE "undefined")

LowestIdle(s) == slots[s].pc = "idle" /\ \A t \in DOMAIN slots : t < s => slots[t].pc # "idle"

\* a fetch event arrives
Dispatch(s, req) ==
  /\ lifecycle = "activated"
  /\ NoSync /\ NoMsg
  /\ LowestIdle(s)
  /\ slots' = [slots EXCEPT ![s] =
       IF Intercepted(ver, req)
         THEN [IdleSlot EXCEPT !.pc = "match", !.req = req]
         ELSE [IdleSlot EXCEPT !.pc = "done", !.req = req, !.resp = PassThrough]]
  /\ UNCHANGED <<ver, caches, lifecycle, deleted, skipWaiting, msg, claimed, storage, sync>>

\* caches.match(request) resolves
DoMatch(s) ==
  /\ slots[s].pc = "match"
  /\ LET cached == Match(caches, slots[s].req.url)
     IN slots' = [slots EXCEPT ![s] =
          IF IsResponse(cached)
            THEN IF Revalidates(ver, slots[s].req.url)
                   THEN [@ EXCEPT !.pc = "bgfetch", !.hit = TRUE, !.net = TRUE, !.resp = cached]
                   ELSE [@ EXCEPT !.pc = "done", !.hit = TRUE, !.resp = cached]
            ELSE [@ EXCEPT !.pc = "fetch", !.net = TRUE]]
  /\ UNCHANGED <<ver, caches, lifecycle, deleted, skipWaiting, msg, claimed, storage, sync>>

\* fetch(request) of the miss path settles
DoFetch(s, out, accept) ==
  /\ slots[s].pc = "fetch"
  /\ out \in NetOutcomes(slots[s].req.url)
  /\ LET url == slots[s].req.url
         read == out = Rejected
         catch == CatchResult(ver, url, accept)
     IN /\ ~read => accept = Unread
        /\ read => accept \in Accepts
        /\ slots' = [slots EXCEPT ![s] =
             IF Ok(out) THEN [@ EXCEPT !.pc = "open", !.resp = out, !.clone = out]
             ELSE IF IsResponse(out) THEN [@ EXCEPT !.pc = "done", !.resp = out]
             ELSE IF catch = "match" THEN [@ EXCEPT !.pc = "fallback", !.accept = accept]
             ELSE IF catch = "undefined" THEN [@ EXCEPT !.pc = "done", !.accept = accept, !.resp = Undefined]
             ELSE [@ EXCEPT !.pc = "done", !.accept = accept, !.resp = Rejected]]
  /\ UNCHANGED <<ver, caches, lifecycle, deleted, skipWaiting, msg, claimed, storage, sync>>

\* caches.match of the fallback page resolves
DoFallback(s) ==
  /\ slots[s].pc = "fallback"
  /\ slots' = [slots EXCEPT ![s] = [@ EXCEPT !.pc = "done", !.resp = Match(caches, ParseUrl(FallbackRef(ver)))]]
  /\ UNCHANGED <<ver, caches, lifecycle, deleted, skipWaiting, msg, claimed, storage, sync>>

\* mutant: the background fetch stores whatever response it gets
DoBgFetchStoresAny(s, out) ==
  /\ slots[s].pc = "bgfetch"
  /\ out \in NetOutcomes(slots[s].req.url)
  /\ slots' = [slots EXCEPT ![s] =
       IF IsResponse(out) THEN [@ EXCEPT !.pc = "open", !.clone = out] ELSE [@ EXCEPT !.pc = "done"]]
  /\ UNCHANGED <<ver, caches, lifecycle, deleted, skipWaiting, msg, claimed, storage, sync>>

\* the background fetch of the hit path settles; a failure is swallowed
DoBgFetch(s, out) ==
  /\ slots[s].pc = "bgfetch"
  /\ out \in NetOutcomes(slots[s].req.url)
  /\ slots' = [slots EXCEPT ![s] =
       IF Ok(out) THEN [@ EXCEPT !.pc = "open", !.clone = out] ELSE [@ EXCEPT !.pc = "done"]]
  /\ UNCHANGED <<ver, caches, lifecycle, deleted, skipWaiting, msg, claimed, storage, sync>>

\* caches.open(...) before a put resolves
DoOpen(s) ==
  /\ slots[s].pc = "open"
  /\ caches' = Open(caches, TargetCache(ver, slots[s].req.url))
  /\ slots' = [slots EXCEPT ![s].pc = "put"]
  /\ UNCHANGED <<ver, lifecycle, deleted, skipWaiting, msg, claimed, storage, sync>>

\* cache.put(request, response)
DoPut(s) ==
  /\ slots[s].pc = "put"
  /\ caches' = Put(caches, TargetCache(ver, slots[s].req.url), slots[s].req.url, slots[s].clone)
  /\ slots' = [slots EXCEPT ![s].pc = "done"]
  /\ UNCHANGED <<ver, lifecycle, deleted, skipWaiting, msg, claimed, storage, sync>>

\* the event is over and forgotten
Retire(s) ==
  /\ slots[s].pc = "done"
  /\ slots' = [slots EXCEPT ![s] = IdleSlot]
  /\ UNCHANGED <<ver, caches, lifecycle, deleted, skipWaiting, msg, claimed, storage, sync>>

\* ------------------------------------------------------------------- sync
Tags == {<<"sync-progress">>, <<"other">>}

\* the sync handler
SyncEvent(tag) ==
  /\ ver = "v1"
  /\ lifecycle = "activated"
  /\ sync.pc = "idle"
  /\ NoFetch /\ NoMsg
  /\ storage' \in Storages
  /\ sync' = IF tag = <<"sync-progress">>
               THEN [IdleSync EXCEPT !.pc = "get", !.tag = tag]
               ELSE [IdleSync EXCEPT !.pc = "done", !.tag = tag, !.settled = "skipped"]
  /\ UNCHANGED <<ver, caches, lifecycle, deleted, skipWaiting, msg, claimed, slots>>

\* getSyncQueue and the test of its result; a throw lands in the catch block
SyncGet ==
  /\ sync.pc = "get"
  /\ sync' =
       IF ~storage.available THEN [sync EXCEPT !.pc = "done", !.settled = "resolved"]
       ELSE LET syncData == JsonParse(IF storage.syncQueue = << >> THEN <<"[", "]">> ELSE storage.syncQueue)
            IN IF Len(syncData) > 0
                 THEN [sync EXCEPT !.pc = "post", !.syncData = syncData, !.posts = @ + 1, !.body = JsonStringify(syncData)]
                 ELSE [sync EXCEPT !.pc = "done", !.syncData = syncData, !.settled = "resolved"]
  /\ UNCHANGED <<ver, caches, lifecycle, deleted, skipWaiting, msg, claimed, slots, storage>>

\* mutant: the queue is cleared after a rejected POST too
SyncPostClearsAlways(status) ==
  /\ sync.pc = "post"
  /\ sync' = [sync EXCEPT !.pc = "clear", !.status = status]
  /\ UNCHANGED <<ver, caches, lifecycle, deleted, skipWaiting, msg, claimed, slots, storage>>

\* the POST to /api/sync settles: fetch resolves whatever the status is
SyncPost(status) ==
  /\ sync.pc = "post"
  /\ sync' = IF status = "failed"
               THEN [sync EXCEPT !.pc = "done", !.status = status, !.settled = "resolved"]
               ELSE [sync EXCEPT !.pc = "clear", !.status = status]
  /\ UNCHANGED <<ver, caches, lifecycle, deleted, skipWaiting, msg, claimed, slots, storage>>

\* clearSyncQueue
SyncClear ==
  /\ sync.pc = "clear"
  /\ storage' = [storage EXCEPT !.syncQueue = <<"[", "]">>]
  /\ sync' = [sync EXCEPT !.pc = "done", !.cleared = TRUE, !.settled = "resolved"]
  /\ UNCHANGED <<ver, caches, lifecycle, deleted, skipWaiting, msg, claimed, slots>>

\* the event is over and forgotten
SyncRetire ==
  /\ sync.pc = "done"
  /\ sync' = IdleSync
  /\ storage' = Unobserved
  /\ UNCHANGED <<ver, caches, lifecycle, deleted, skipWaiting, msg, claimed, slots>>

\* ---------------------------------------------------------------- message
\* the message handler (v2 and v1)
Message(data) ==
  /\ lifecycle \in {"installed", "activated"}
  /\ ver \in {"v1", "v2"}
  /\ NoFetch /\ NoSync /\ NoMsg
  /\ msg' = [pc |-> "done", data |-> data, skipWaiting |-> (data = "skipWaiting")]
  /\ UNCHANGED <<ver, caches, lifecycle, deleted, skipWaiting, claimed, slots, storage, sync>>

\* the event is over and forgotten
MessageRetire ==
  /\ msg.pc = "done"
  /\ msg' = IdleMsg
  /\ UNCHANGED <<ver, caches, lifecycle, deleted, skipWaiting, claimed, slots, storage, sync>>

Next ==
  \/ Install
  \/ Activate
  \/ Activated
  \/ \E s \in DOMAIN slots : \E req \in Requests(ver) : Dispatch(s, req)
  \/ \E s \in DOMAIN slots : DoMatch(s)
  \/ \E s \in DOMAIN slots : slots[s].pc = "fetch" /\ \E out \in NetOutcomes(slots[s].req.url) : \E accept \in Accepts \cup {Unread} : DoFetch(s, out, accept)
  \/ \E s \in DOMAIN slots : DoFallback(s)
  \/ \E s \in DOMAIN slots : slots[s].pc = "bgfetch" /\ \E out \in NetOutcomes(slots[s].req.url) : DoBgFetch(s, out)
  \/ \E s \in DOMAIN slots : DoOpen(s)
  \/ \E s \in DOMAIN slots : DoPut(s)
  \/ \E s \in DOMAIN slots : Retire(s)
  \/ \E tag \in Tags : SyncEvent(tag)
  \/ SyncGet
  \/ \E status \in {"ok", "nonok", "failed"} : SyncPost(status)
  \/ SyncClear
  \/ SyncRetire
  \/ \E data \in {"skipWaiting", "other"} : Message(data)
  \/ MessageRetire

Spec == Init /\ [][Next]_vars

\* the event loop runs every promise callback that is ready: a pending
\* caches.open or cache.put is eventually carried out
Fairness == \A s \in Slots : WF_vars(DoOpen(s)) /\ WF_vars(DoPut(s))

\* the worker is registered on an origin whose Cache Storage is empty
LiveInit == Init /\ caches = EmptyStorage

LiveSpec == LiveInit /\ [][Next]_vars /\ Fairness

\* overlapping fetch events: the worker is installed and active on an origin
\* whose Cache Storage was empty, one more fetch event can be in flight, and
\* the page asks for URLs that are not precached
ConcSlots == 1..(MaxSlots + 1)

ConcRequests(v) ==
  [url : (IF v = "v2" THEN {LessonUrl, PypiUrl} ELSE {LessonUrl}), method : {"GET"}]

ConcInit ==
  /\ ver \in Versions
  /\ caches = ActivateCaches(ver, InstallCaches(ver, EmptyStorage, {}, 1))
  /\ lifecycle = "activated"
  /\ deleted = {}
  /\ skipWaiting = TRUE
  /\ msg = IdleMsg
  /\ claimed = TRUE
  /\ slots = [s \in ConcSlots |-> IdleSlot]
  /\ storage = Unobserved
  /\ sync = IdleSync

ConcNext ==
  \/ \E s \in DOMAIN slots : \E req \in ConcRequests(ver) : Dispatch(s, req)
  \/ \E s \in DOMAIN slots : DoMatch(s)
  \/ \E s \in DOMAIN slots : slots[s].pc = "fetch" /\ \E out \in NetOutcomes(slots[s].req.url) : \E accept \in Accepts \cup {Unread} : DoFetch(s, out, accept)
  \/ \E s \in DOMAIN slots : DoFallback(s)
  \/ \E s \in DOMAIN slots : slots[s].pc = "bgfetch" /\ \E out \in NetOutcomes(slots[s].req.url) : DoBgFetch(s, out)
  \/ \E s \in DOMAIN slots : DoOpen(s)
  \/ \E s \in DOMAIN slots : DoPut(s)
  \/ \E s \in DOMAIN slots : Retire(s)

ConcSpec == ConcInit /\ [][ConcNext]_vars

\* =================================================================== claims
\* the entries Cache Storage holds for a URL, over all its caches
Entries(st, url) == {st.data[n][url] : n \in {m \in Range(st.names) : url \in DOMAIN st.data[m]}}

\* the requests of which C1 says that no network request is issued
CacheOnly(v, url) ==
  \/ v = "v3"
  \/ v = "v2" /\ (\E h \in {<<"jsdelivr">>, <<"pypi">>, <<"pyodide">>} : Includes(url.hostname, h))

\* C1 (cache-first): when the cache lookup of an intercepted GET request
\* resolves while Cache Storage holds an entry for the URL, the handler responds
\* with a cached entry for that URL, and in v3 and in the v2 CDN branch the
\* event ends there without a network request.
C1_CacheFirst ==
  [][\A s \in DOMAIN slots :
       (slots[s].pc = "match" /\ slots'[s].pc # "match" /\ Entries(caches, slots[s].req.url) # {})
         => /\ slots'[s].resp \in Entries(caches, slots[s].req.url)
            /\ slots'[s].hit
            /\ CacheOnly(ver, slots[s].req.url) => (slots'[s].pc = "done" /\ ~slots'[s].net)]_vars

\* a CDN request of v2 answered from the cache without a network request
C1_Witness ==
  \E s \in DOMAIN slots :
    /\ ver = "v2" /\ slots[s].req.url = PypiUrl
    /\ slots[s].pc = "done" /\ slots[s].hit /\ ~slots[s].net
    /\ slots[s].resp \in Entries(caches, PypiUrl)

\* the caches C2 names for the copy of a network response
ClaimedStores(v) ==
  IF v = "v3" THEN {<<"ai-learning", "-v3">>}
  ELSE IF v = "v2" THEN {<<"ai-learning", "-v2">>, <<"stlite", "-cache-v1">>}
  ELSE {<<"dynamic", "-v1">>}

\* the miss path of slot s has got an ok response from the network
MissOk(s) == slots[s].pc = "open" /\ ~slots[s].hit

\* the miss path of slot s is over and a copy of its response is in a cache C2 names
MissStored(s) ==
  /\ slots[s].pc = "done" /\ ~slots[s].hit
  /\ \E n \in ClaimedStores(ver) :
       /\ Has(caches, n) /\ slots[s].req.url \in DOMAIN caches.data[n]
       /\ caches.data[n][slots[s].req.url] = slots[s].clone
  /\ Entries(caches, slots[s].req.url) # {}

\* C2 (network-and-store on miss): when a request misses the cache and the
\* network answers ok, the handler responds with that response, and a copy of
\* it is eventually stored in the cache the claim names for the version, after
\* which Cache Storage has an entry for the URL (so a later request hits the
\* cache whatever the network does, by C1).
C2_NetworkAndStore ==
  /\ [](\A s \in Slots : MissOk(s) => (slots[s].resp = slots[s].clone /\ slots[s].resp.kind = "response" /\ slots[s].resp.ok))
  /\ \A s \in Slots : MissOk(s) ~> MissStored(s)

\* a miss of v1 answered from the network and stored in dynamic-v1
C2_Witness ==
  \E s \in DOMAIN slots :
    /\ ver = "v1" /\ MissStored(s)
    /\ slots[s].resp = slots[s].clone /\ slots[s].net

\* C3 (stale-while-revalidate): in v1 and in the v2 local branch a cache hit is
\* answered with the cached response while a background fetch starts, and once
\* the put of an ok background response is done, a lookup of the same URL gives
\* the refreshed response.
C3_StaleWhileRevalidate ==
  [][\A s \in DOMAIN slots :
       /\ (/\ slots[s].pc = "match" /\ slots'[s].pc # "match"
           /\ Entries(caches, slots[s].req.url) # {}
           /\ ~CacheOnly(ver, slots[s].req.url))
            => (slots'[s].resp \in Entries(caches, slots[s].req.url) /\ slots'[s].pc = "bgfetch")
       /\ (slots[s].hit /\ slots[s].pc = "put" /\ slots'[s].pc = "done")
            => Match(caches', slots[s].req.url) = slots[s].clone]_vars

\* the URLs of a version's STATIC_ASSETS
StaticUrlsOf == [v \in Versions |-> {ParseUrl(a) : a \in STATIC_ASSETS(v)}]

StaticUrls(v) == StaticUrlsOf[v]

\* C4 (works offline after first load): once install has succeeded, every URL
\* of the version's STATIC_ASSETS has an ok entry in Cache Storage in every later
\* state, and every intercepted request for one is answered from the cache.
C4_StaticAssetsStay ==
  lifecycle \in {"installed", "activating", "activated"} =>
    /\ \A u \in StaticUrls(ver) :
         /\ Entries(caches, u) # {}
         /\ \A r \in Entries(caches, u) : r.kind = "response" /\ r.ok /\ r.url = u
    /\ \A s \in DOMAIN slots :
         (slots[s].req.url \in StaticUrls(ver) /\ slots[s].req.method = "GET" /\ slots[s].pc \notin {"idle", "match"})
           => (slots[s].hit /\ slots[s].resp.kind = "response" /\ slots[s].resp.ok
                 /\ slots[s].resp.url = slots[s].req.url)

\* v1 after install, activation and a sync event, with a request for '/'
\* answered from the cache
C4_Witness ==
  /\ ver = "v1" /\ lifecycle = "activated"
  /\ \E s \in DOMAIN slots :
       /\ slots[s].pc = "done" /\ slots[s].hit
       /\ slots[s].req.url = RootUrl
       /\ Has(caches, DYNAMIC_CACHE) /\ RootUrl \in DOMAIN caches.data[DYNAMIC_CACHE]

\* the caches a version uses, as C5 and C6 name them
UsedCaches(v) ==
  IF v = "v3" THEN {<<"ai-learning", "-v3">>}
  ELSE IF v = "v2" THEN {<<"ai-learning", "-v2">>, <<"stlite", "-cache-v1">>}
  ELSE {<<"static", "-v1">>, <<"dynamic", "-v1">>}

\* C5 (activate evicts stale caches, v3 and v1): when the activate handler's
\* promise resolves, every cache left is one the version uses, and the caches the
\* version uses that existed before are still there with their content.
C5_ActivateEvicts ==
  [][(lifecycle = "installed" /\ lifecycle' = "activating" /\ ver \in {"v3", "v1"})
       => /\ Range(caches'.names) \subseteq UsedCaches(ver)
          /\ \A n \in UsedCaches(ver) \cap Range(caches.names) :
               n \in Range(caches'.names) /\ caches'.data[n] = caches.data[n]]_vars

\* an activation of v1 that deleted a stale cache and kept static-v1
C5_Witness ==
  /\ ver = "v1" /\ lifecycle = "activating"
  /\ deleted # {}
  /\ Range(caches.names) = {STATIC_CACHE}

\* C6 (activate cleans up old caches, v2): when the activate handler's promise
\* resolves, the caches left are exactly 'ai-learning-v2' and 'stlite-cache-v1'.
C6_ActivateCleansV2 ==
  [][(lifecycle = "installed" /\ lifecycle' = "activating" /\ ver = "v2")
       => Range(caches'.names) = UsedCaches("v2")]_vars

\* the miss path of slot s has ended after its network fetch failed
MissFailed(s) == slots[s].pc = "done" /\ ~slots[s].hit /\ slots[s].accept # Unread

WantsHtml(s) == slots[s].accept.present /\ Includes(slots[s].accept.value, <<"text/html">>)

\* the page got a cached copy of the URL u
GotCached(s, u) ==
  /\ slots[s].resp.kind = "response"
  /\ slots[s].resp.url = u
  /\ slots[s].resp.ok

\* C7 as stated (offline fallback to the app shell, v3 and v2): after a miss
\* and a failed network fetch, v3 answers every request, and v2 every request
\* whose accept header includes 'text/html', with the cached index.html.
C7_FallbackAppShell ==
  \A s \in DOMAIN slots :
    (ver \in {"v3", "v2"} /\ MissFailed(s) /\ (ver = "v2" => WantsHtml(s)))
      => GotCached(s, IndexUrl)

\* C7 as amended: in v2 only for requests of the local branch, whose hostname
\* contains none of 'jsdelivr', 'pypi', 'pyodide'.
C7_FallbackAppShellLocal ==
  \A s \in DOMAIN slots :
    (/\ ver \in {"v3", "v2"} /\ MissFailed(s)
     /\ ver = "v2" => (WantsHtml(s) /\ ~CacheOnly(ver, slots[s].req.url)))
      => GotCached(s, IndexUrl)

\* a page request of v2 that missed, failed on the network and got index.html
C7_Witness ==
  \E s \in DOMAIN slots :
    /\ ver = "v2" /\ MissFailed(s) /\ WantsHtml(s)
    /\ slots[s].req.url = LessonUrl
    /\ GotCached(s, IndexUrl)

\* C8 (offline fallback for HTML pages, v1): after a miss and a failed network
\* fetch, a request whose accept header includes 'text/html' is answered with
\* the cached '/offline.html'.
C8_FallbackOfflinePage ==
  \A s \in DOMAIN slots :
    (ver = "v1" /\ MissFailed(s) /\ WantsHtml(s)) => GotCached(s, OfflineUrl)

\* C9 (smart sync does not lose progress): when syncProgress has cleared the
\* queue, one POST carrying the queue contents was answered with a success
\* status; after any other outcome of the POST the queue is what it was.
C9_SyncKeepsProgress ==
  /\ sync.cleared => (sync.posts = 1 /\ sync.body = JsonStringify(sync.syncData) /\ sync.status = "ok")
  /\ (sync.pc = "done" /\ sync.status \in {"nonok", "failed"}) => JsonParse(storage.syncQueue) = sync.syncData

\* C10 (only successful responses are cached): every entry of every cache is
\* an ok response; a non-ok network response is delivered on the miss path
\* with no put pending, and a pending put always carries an ok response.
C10_OnlyOkCached ==
  /\ \A n \in Range(caches.names) : \A u \in DOMAIN caches.data[n] :
       caches.data[n][u].kind = "response" /\ caches.data[n][u].ok
  /\ \A s \in DOMAIN slots :
       /\ (slots[s].resp.kind = "response" /\ ~slots[s].resp.ok)
            => (slots[s].pc = "done" /\ ~slots[s].hit /\ slots[s].clone = Pending)
       /\ slots[s].pc \in {"open", "put"} => (slots[s].clone.kind = "response" /\ slots[s].clone.ok)

\* a non-ok network response delivered on a miss, with nothing stored for the URL
C10_Witness ==
  \E s \in DOMAIN slots :
    /\ slots[s].pc = "done" /\ ~slots[s].hit /\ slots[s].net
    /\ slots[s].resp.kind = "response" /\ ~slots[s].resp.ok
    /\ Entries(caches, slots[s].req.url) = {}

\* a request C11 says is left to the browser: not GET, or not over http(s)
NotForWorker(req) == req.method # "GET" \/ ~StartsWith(req.url.protocol, <<"http">>)

\* C11 (pass-through): in every version, the arrival of a fetch event whose
\* request is not GET or whose URL scheme does not start with 'http' leaves
\* Cache Storage as it was and ends the event at once: respondWith is not
\* called, and no cache lookup, network fetch or cache write is started or left
\* pending for it.
C11_PassThrough ==
  [][\A s \in DOMAIN slots :
       (slots[s].pc = "idle" /\ slots'[s].pc # "idle" /\ NotForWorker(slots'[s].req))
         => /\ slots'[s].pc = "done"
            /\ slots'[s].resp = PassThrough
            /\ ~slots'[s].hit /\ ~slots'[s].net
            /\ slots'[s].clone = Pending
            /\ caches' = caches]_vars

\* a POST request that the v3 worker has left to the browser
C11_Witness ==
  \E s \in DOMAIN slots :
    /\ ver = "v3" /\ slots[s].req.method = "POST"
    /\ slots[s].pc = "done" /\ slots[s].resp = PassThrough /\ ~slots[s].net

\* the precache lists and the caches C12 names for them
PrecacheList(cache, refs) == [cache |-> cache, refs |-> refs, urls |-> {ParseUrl(r) : r \in refs}]

PrecacheLists ==
  [v \in Versions |->
     IF v = "v3" THEN {PrecacheList(<<"ai-learning", "-v3">>, STATIC_ASSETS_v3)}
     ELSE IF v = "v2" THEN {PrecacheList(<<"ai-learning", "-v2">>, STATIC_ASSETS_v2),
                            PrecacheList(<<"stlite", "-cache-v1">>, STLITE_RESOURCES)}
     ELSE {PrecacheList(<<"static", "-v1">>, STATIC_ASSETS_v1)}]

\* the list l is stored completely: its cache holds an ok response for each URL
ListStored(l) ==
  /\ Has(caches, l.cache)
  /\ \A u \in l.urls :
       /\ u \in DOMAIN caches.data[l.cache]
       /\ caches.data[l.cache][u].kind = "response"
       /\ caches.data[l.cache][u].ok

PrecacheStored == \A l \in PrecacheLists[ver] : ListStored(l)

\* C12 (install ordering and failure): the install handler has called
\* skipWaiting only if every precache list is stored completely; an install
\* that ended without storing every list has rejected (the worker is redundant)
\* and has not called skipWaiting, and no rejected install ever has.
C12_InstallOrdering ==
  /\ skipWaiting => PrecacheStored
  /\ (lifecycle # "installing" /\ ~PrecacheStored) => (lifecycle = "redundant" /\ ~skipWaiting)
  /\ lifecycle = "redundant" => ~skipWaiting

\* a v2 install that stored STATIC_ASSETS, failed on the stlite script and
\* did not call skipWaiting
C12_Witness ==
  /\ ver = "v2" /\ lifecycle = "redundant" /\ ~skipWaiting
  /\ \E l \in PrecacheLists["v2"] : l.refs = STATIC_ASSETS_v2 /\ ListStored(l)
  /\ \E l \in PrecacheLists["v2"] : l.refs = STLITE_RESOURCES /\ ~ListStored(l)

\* a URL C13 calls a CDN URL
CdnUrl(url) == \E h \in {<<"jsdelivr">>, <<"pypi">>, <<"pyodide">>} : Includes(url.hostname, h)

\* the URLs that have an entry in the cache named n
Keys(n) == IF Has(caches, n) THEN DOMAIN caches.data[n] ELSE {}

\* C13 (cache partition, v2): 'stlite-cache-v1' holds entries for CDN URLs
\* only, 'ai-learning-v2' holds no entry for a CDN URL, and a cache hit of a
\* request for a CDN URL starts no background fetch.
C13_CachePartition ==
  ver = "v2" =>
    /\ \A u \in Keys(<<"stlite", "-cache-v1">>) : CdnUrl(u)
    /\ \A u \in Keys(<<"ai-learning", "-v2">>) : ~CdnUrl(u)
    /\ \A s \in DOMAIN slots :
         (CdnUrl(slots[s].req.url) /\ slots[s].hit) => (~slots[s].net /\ slots[s].pc = "done")

\* v2 with a fetched pypi entry in the stlite cache, a fetched page in the
\* main cache, and a pypi request answered from the cache
C13_Witness ==
  /\ ver = "v2"
  /\ PypiUrl \in Keys(<<"stlite", "-cache-v1">>)
  /\ LessonUrl \in Keys(<<"ai-learning", "-v2">>)
  /\ \E s \in DOMAIN slots : slots[s].req.url = PypiUrl /\ slots[s].hit /\ slots[s].pc = "done"

\* the queue getSyncQueue reads: an absent item counts as '[]'
QueueOf(st) == IF st.syncQueue = << >> THEN << >> ELSE JsonParse(st.syncQueue)

\* C14 (background sync dispatch and error handling, v1): a sync event with
\* another tag than 'sync-progress' ends at once without a POST; for
\* 'sync-progress' an empty queue ends the event without a POST and without a
\* queue write; a non-empty queue is POSTed once, and the queue is cleared
\* before the event ends unless the POST rejected; after a rejected POST the
\* queue is what it was; the queue is written by nothing else, and the promise
\* given to waitUntil resolves in every case, also when reading the queue throws.
C14_SyncDispatch ==
  [][/\ (sync.pc = "idle" /\ sync'.pc # "idle") =>
          IF sync'.tag = <<"sync-progress">>
            THEN sync'.pc = "get" /\ sync'.posts = 0
            ELSE sync'.pc = "done" /\ sync'.settled = "skipped" /\ sync'.posts = 0
     /\ (sync.pc = "get" /\ sync'.pc # "get") =>
          IF storage.available /\ QueueOf(storage) # << >>
            THEN /\ sync'.pc = "post" /\ sync'.posts = 1
                 /\ sync'.body = storage.syncQueue
                 /\ storage' = storage
            ELSE /\ sync'.pc = "done" /\ sync'.settled = "resolved" /\ sync'.posts = 0
                 /\ storage' = storage
     /\ (sync.pc = "post" /\ sync'.pc # "post") =>
          /\ sync'.posts = 1 /\ storage' = storage
          /\ IF sync'.status = "failed"
               THEN sync'.pc = "done" /\ sync'.settled = "resolved"
               ELSE sync'.pc = "clear"
     /\ (sync.pc = "clear" /\ sync'.pc # "clear") =>
          /\ sync'.pc = "done" /\ sync'.settled = "resolved" /\ sync'.posts = 1
          /\ storage'.available /\ QueueOf(storage') = << >>
     /\ (sync'.pc = "done" /\ sync'.status = "failed") => storage'.syncQueue = sync'.body
     /\ sync'.pc = "done" => sync'.settled \in {"resolved", "skipped"}
     /\ (sync.pc # "idle" /\ sync'.pc # "idle" /\ storage' # storage) =>
          (sync.posts = 1 /\ sync.status \in {"ok", "nonok"})]_vars

\* a 'sync-progress' event whose POST was rejected: the promise resolved and
\* the queue still holds its entry
C14_Witness ==
  /\ sync.pc = "done" /\ sync.tag = <<"sync-progress">>
  /\ sync.status = "failed" /\ sync.posts = 1 /\ sync.settled = "resolved"
  /\ storage.available /\ Len(QueueOf(storage)) > 0

\* C15 (the response promise never rejects): in every version, whatever the
\* cache, the network and the accept header do, the promise an intercepted
\* request's handler gives to respondWith does not reject.
C15_NeverRejects == \A s \in DOMAIN slots : slots[s].resp.kind # "rejected"

\* C16 (a failed refresh leaves the cache untouched): on a cache hit of v1 or
\* of the v2 local branch, the lookup step and a background fetch that fails
\* or is answered non-ok leave Cache Storage as it was, start no cache write,
\* and leave the cached response as the one delivered; and no step of a fetch
\* event, in any version, removes a cache or an entry of a cache.
C16_FailedRefresh ==
  [][\A s \in DOMAIN slots :
       /\ (slots[s].pc = "match" /\ slots'[s].pc = "bgfetch") =>
            /\ caches' = caches
            /\ slots'[s].resp \in Entries(caches, slots[s].req.url)
       /\ (slots[s].pc = "bgfetch" /\ slots'[s].pc # "bgfetch"
              /\ ~(slots'[s].clone.kind = "response" /\ slots'[s].clone.ok)) =>
            /\ caches' = caches
            /\ slots'[s].pc = "done" /\ slots'[s].clone = Pending
            /\ slots'[s].resp = slots[s].resp
            /\ slots'[s].resp.kind = "response" /\ slots'[s].resp.url = slots[s].req.url
       /\ slots'[s] # slots[s] =>
            \A n \in Range(caches.names) :
              n \in Range(caches'.names) /\ DOMAIN caches.data[n] \subseteq DOMAIN caches'.data[n]]_vars

\* a hit of the v2 local branch that ended after its background fetch brought
\* nothing to store
C16_Witness ==
  \E s \in DOMAIN slots :
    /\ ver = "v2" /\ slots[s].req.url = IndexUrl
    /\ slots[s].pc = "done" /\ slots[s].hit /\ slots[s].net /\ slots[s].clone = Pending
    /\ slots[s].resp \in Entries(caches, IndexUrl)

\* the caches that hold an entry for the URL u
Holders(u) == {n \in Range(caches.names) : u \in DOMAIN caches.data[n]}

\* every fetch event that can be in flight is one for the URL u, and each has
\* looked u up and missed: overlapping events for a URL that was not cached
AllMissed(u) ==
  \A s \in DOMAIN slots :
    /\ slots[s].req.url = u /\ slots[s].req.method = "GET"
    /\ slots[s].pc \notin {"idle", "match"}
    /\ ~slots[s].hit

\* no lookup, network fetch or cache write of any event is pending
AllDone == \A s \in DOMAIN slots : slots[s].pc = "done"

\* the ok responses the network returned to the events in flight
OkReturned == {slots[s].clone : s \in {t \in DOMAIN slots : slots[t].clone.kind = "response" /\ slots[t].clone.ok}}

\* C17 as stated (concurrent fetch events for the same uncached URL): each of
\* the overlapping events is answered with a response, and once all cache
\* writes are done exactly one cache entry exists for the URL, which is an ok
\* response the network returned for it.
C17_ConcurrentFetches ==
  \A u \in {slots[s].req.url : s \in DOMAIN slots} :
    AllMissed(u) =>
      /\ \A s \in DOMAIN slots : slots[s].pc = "done" => slots[s].resp.kind = "response"
      /\ AllDone =>
           /\ Cardinality(Holders(u)) = 1
           /\ \A n \in Holders(u) : caches.data[n][u] \in OkReturned /\ caches.data[n][u].url = u

\* C17 as amended: each of the overlapping events whose network fetch returned
\* a response is answered with that kind of response for the URL; once all
\* cache writes are done, exactly one cache entry exists for the URL if the
\* network returned an ok response to one of the events, and it is such a
\* response; otherwise no entry exists. In every interleaving, also when a
\* later lookup already hits, a URL outside the precache list has at most one
\* entry, an ok response for that URL, and a hit is answered with a response
\* for the URL.
C17_ConcurrentFetchesNetOk ==
  \A u \in {slots[s].req.url : s \in DOMAIN slots} \ StaticUrls(ver) :
    /\ Cardinality(Holders(u)) <= 1
    /\ \A n \in Holders(u) :
         caches.data[n][u].kind = "response" /\ caches.data[n][u].ok /\ caches.data[n][u].url = u
    /\ \A s \in DOMAIN slots :
         (slots[s].req.url = u /\ slots[s].hit) =>
           (slots[s].resp.kind = "response" /\ slots[s].resp.url = u /\ slots[s].resp.ok)
    /\ AllMissed(u) =>
         /\ \A s \in DOMAIN slots :
              (slots[s].pc = "done" /\ slots[s].accept = Unread) =>
                (slots[s].resp.kind = "response" /\ slots[s].resp.url = u)
         /\ AllDone =>
              IF OkReturned # {}
                THEN /\ Cardinality(Holders(u)) = 1
                     /\ \A n \in Holders(u) : caches.data[n][u] \in OkReturned
                ELSE Holders(u) = {}

\* two overlapping events of v1 for '/lesson' that both missed and got
\* different ok responses: one entry is left, the response of one of them
C17_Witness ==
  /\ ver = "v1" /\ AllMissed(LessonUrl) /\ AllDone
  /\ \E s, t \in DOMAIN slots :
       /\ slots[s].clone.kind = "response" /\ slots[t].clone.kind = "response"
       /\ slots[s].clone # slots[t].clone
       /\ slots[s].resp = slots[s].clone /\ slots[t].resp = slots[t].clone
       /\ Holders(LessonUrl) = {DYNAMIC_CACHE}
       /\ caches.data[DYNAMIC_CACHE][LessonUrl] = slots[s].clone

====
